---- MODULE Spec2Model ----
(***************************************************************************)
(* gearsim: compiling a graph of gear nodes into Blender drivers.          *)
(*                                                                         *)
(* The model follows src/builder.py (build_drivers, setup_armature,        *)
(* cleanup_armature), src/nodes.py (the node catalog), src/node_value.py   *)
(* (the value handles) and src/pose_driver_utils.py (PropertyNamespace).   *)
(* The armature object and its animation data belong to the host; only the *)
(* calls the source makes on them are modelled: custom properties are a    *)
(* mapping, animation_data.drivers is an ordered collection.               *)
(***************************************************************************)
EXTENDS Integers, Sequences, FiniteSets, TLC

\* ------------------------------------------------------------------ bounds
\* Links a caller declares before one build_drivers run (Spec).
MaxLinks == 3
\* Links a caller declares in the rebuild scenario (SpecRebuild).
MaxRebuildLinks == 2
\* Largest scene frame number the host moves to (SpecFrame).
MaxFrame == 10
\* Evaluation passes counted since the compile, and passes the host makes
\* over a compiled graph (SpecEval).
PassCap == 3
\* Calls of add_idprop made directly on the namespace (SpecScalar).
MaxCalls == 3
\* Links a caller declares around a transmission (SpecTeeth).
MaxTeethLinks == 2
\* Largest scene frame number the host moves to with a compiled graph
\* (SpecEval).
MaxEvalFrame == 1
\* Drivers made one by one on the namespace (SpecLength).
MaxDrivers == 3
\* Drivers the user has put on the armature before it is compiled
\* (SpecForeign).
MaxUserDrivers == 2

\* --------------------------------------------------------------- constants
\* gearsim_namespace = PropertyNamespace("__gearsim__")
prefix == "__gearsim__"
\* The armature object itself, as the target of ID-level properties.
OBJ == "OBJ"
Bones == {"A", "B"}
\* RotationValue.self_prop's axisname table, indexed from 0 as in Python.
axisname == <<"x", "y", "z">>
\* pose_driver_utils.driver_axis_types, indexed from 0 as in Python.
driver_axis_types == <<"ROT_X", "ROT_Y", "ROT_Z">>

\* 2*pi: angles are whole multiples of 1/80 of a revolution (pi/40), a
\* quarter of a tooth of a 20 teeth gear.
AngleUnits == 80
\* bpy.types.Driver.bl_rna.properties['expression'].length_max: "driver
\* expression length is quite limited (256 chars)".
max_expr_len == 256

\* ------------------------------------------------------------ python values
None == [type |-> "None"]
\* What getattr meets when neither the instance nor its class has the name.
Missing == [type |-> "missing"]
NoError == [type |-> "NoError"]
\* raise <type>(<msg>)
Raise(type, msg) == [type |-> type, msg |-> msg]

num(v) == [type |-> "num", v |-> v]
\* sys.float_info.max, the default bound of an IDPropValue.
float_max == [type |-> "float_max", sign |-> 1]
neg_float_max == [type |-> "float_max", sign |-> -1]

\* GearDescriptor(obj, bone_name, axis)
GearDescriptor(bone, axis) == [pose_bone |-> bone, axis |-> axis]

\* ------------------------------------------------------------ node catalog
GearNode(target_gear) ==
    [kind |-> "GearNode", target_gear |-> target_gear]
ConstRotationNode(default_speed) ==
    [kind |-> "ConstRotationNode", default_speed |-> default_speed]
TransmissionNode(input_gear, input_teeth, output_teeth) ==
    [kind |-> "TransmissionNode", input_gear |-> input_gear,
     input_teeth |-> input_teeth, output_teeth |-> output_teeth]
\* Angles are counted in AngleUnits-ths of a revolution.
RangeConditionNode(pose_bone, axis, start_angle, stop_angle) ==
    [kind |-> "RangeConditionNode", pose_bone |-> pose_bone, axis |-> axis,
     start_angle |-> start_angle, stop_angle |-> stop_angle]

\* class ExpressionNode(Node) and its three subclasses
ExpressionKinds == {"ConstRotationNode", "TransmissionNode", "RangeConditionNode"}

\* The class-level attributes a node object has before any link is resolved;
\* every other name is missing until setattr creates it.
ClassAttrs(kind) ==
    CASE kind = "GearNode" -> {"input_value", "condition_value"}
      [] kind = "ConstRotationNode" -> {"output_value"}
      [] kind = "TransmissionNode" -> {"output_value"}
      [] kind = "RangeConditionNode" -> {"condition_value"}

AttrNames == {"input_value", "output_value", "condition_value"}

\* The node lists a caller hands to build_drivers: the anchors are the
\* GearNodes of the list, in list order.
NodeLists ==
    { << GearNode(GearDescriptor("A", 2)),
         ConstRotationNode(1),
         RangeConditionNode("B", 2, 60, 20) >>,
      << GearNode(GearDescriptor("A", 2)),
         GearNode(GearDescriptor("A", 2)),
         ConstRotationNode(1) >>,
      << GearNode(GearDescriptor("A", 2)),
         GearNode(GearDescriptor("B", 2)),
         TransmissionNode(GearDescriptor("A", 2), 40, 20) >> }

\* A gear driven through a transmission, for every sign of the tooth counts.
TeethLists ==
    { << GearNode(GearDescriptor("B", 2)),
         TransmissionNode(GearDescriptor("A", 2), input_teeth, output_teeth) >> :
        input_teeth \in {-40, 0, 40}, output_teeth \in {-20, 0, 20} }

\* Mechanisms that are evaluated after the compile: a gear turned at constant
\* speed and a gear driven through a transmission, each gated by the angle
\* of the other bone; the range does not wrap, is empty, or wraps (from
\* 3*pi/2 to pi/2).
EvalLists ==
    { << GearNode(GearDescriptor("A", 2)),
         ConstRotationNode(1),
         RangeConditionNode("B", 2, angles[1], angles[2]) >> :
        angles \in {<<20, 60>>, <<20, 20>>} }
    \cup
    { << GearNode(GearDescriptor("B", 2)),
         TransmissionNode(GearDescriptor("A", 2), 40, 20),
         RangeConditionNode("A", 2, 60, 20) >> }

\* The angles a bone is posed at: 0, 7*pi/8, pi, 7*pi/4.
PoseAngles == {0, 35, 40, 70}
\* The angle about z both bones are posed at when the graph is compiled.
InitialAngles == {0, 35}

\* (input_name, output_name) pairs a caller passes to Node.link.
LinkNames ==
    { <<"input_value", "output_value">>,
      <<"condition_value", "condition_value">> }

VARIABLES
    nodes,      \* the node list passed to build_drivers
    links,      \* Node.links of every node: a sequence of link triples
    attrs,      \* the value attributes of every node object
    props,      \* custom properties of the armature and its bones
    rna_ui,     \* their "_RNA_UI" entries
    drivers,    \* obj.animation_data.drivers, in collection order
    pc,         \* where build_drivers is
    err,        \* the exception build_drivers raised, or NoError
    ai,         \* position of the loop "for node in nodes"
    marked, visited, sorted, stack,   \* gather_expression_nodes
    bi,         \* position of the loop over input_nodes (1-based)
    built,      \* nodes built so far for the current anchor
    scopes,     \* every (anchor, node, scope) assigned in this run
    resolved,   \* the links resolved for the node built last
    log,        \* every scalar and driver emitted in this run, in order
    anchor_log, \* Len(log) when the current anchor was taken up
    run,        \* number of build_drivers calls started
    steps,      \* steps build_drivers has taken in the current run
    first,      \* the backend as the first completed run left it
    frame, pending, pass_prev, pass_order,  \* the host's evaluation pass
    rotation_euler, \* the live rotation of every pose bone, per axis
    passes,     \* evaluation passes begun since the compile, up to PassCap
    snap,       \* the properties and rotations as the current pass found them
    call        \* the last add_idprop call made from outside a compile

graphVars == <<nodes, links>>
gatherVars == <<marked, visited, sorted, stack>>
backendVars == <<props, rna_ui, drivers>>
buildVars == <<attrs, bi, built, scopes, resolved, log, anchor_log>>
hostVars == <<frame, pending, pass_prev, pass_order, rotation_euler, passes, snap, call>>
vars == <<nodes, links, attrs, props, rna_ui, drivers, pc, err, ai,
          marked, visited, sorted, stack, bi, built, scopes, resolved,
          log, anchor_log, run, steps, first,
          frame, pending, pass_prev, pass_order, rotation_euler, passes, snap, call>>

NodeIds == DOMAIN nodes
isinstance_ExpressionNode(n) == nodes[n].kind \in ExpressionKinds
isinstance_GearNode(n) == nodes[n].kind = "GearNode"

EmptyMap == [k \in {} |-> None]

RECURSIVE SumLens(_, _)
SumLens(f, S) ==
    IF S = {} THEN 0
    ELSE LET n == CHOOSE x \in S : TRUE
         IN  Len(f[n]) + SumLens(f, S \ {n})
TotalLinks == SumLens(links, NodeIds)

InitAttrs(kind) ==
    [a \in AttrNames |-> IF a \in ClassAttrs(kind) THEN None ELSE Missing]

InitCommon ==
    /\ nodes \in NodeLists \cup TeethLists \cup EvalLists \cup {<<>>}
    /\ links = [n \in DOMAIN nodes |-> <<>>]
    /\ attrs = [n \in DOMAIN nodes |-> InitAttrs(nodes[n].kind)]
    /\ props = EmptyMap
    /\ rna_ui = EmptyMap
    /\ drivers = <<>>
    /\ pc = "idle"
    /\ err = NoError
    /\ ai = 0
    /\ marked = {} /\ visited = {} /\ sorted = <<>> /\ stack = <<>>
    /\ bi = 0
    /\ built = {}
    /\ scopes = <<>>
    /\ resolved = <<>>
    /\ log = <<>>
    /\ anchor_log = 0
    /\ run = 0
    /\ steps = 0
    /\ first = None
    /\ frame = 0 /\ pending = {} /\ pass_prev = 0 /\ pass_order = <<>>
    /\ passes = 0
    /\ snap = None
    /\ call = None

\* ------------------------------------------------- PropertyNamespace (host)
\* The backend a compile writes to, threaded through the emitting operators.
World(p, u, d, l) == [props |-> p, rna_ui |-> u, drivers |-> d, log |-> l]

\* prefix + target.name + "_" + name for a pose bone, prefix + name otherwise.
\* The three parts are kept apart so that startswith can look at the first.
idprop_uuid(target, name) ==
    IF target \in Bones
    THEN [prefix |-> prefix, bone |-> target, name |-> name]
    ELSE [prefix |-> prefix, bone |-> "", name |-> name]

\* key.startswith(self.prefix)
startswith_prefix(key) == key.prefix = prefix

\* '["{prop}"]' on the ID, path_from_id() + '["{prop}"]' on a pose bone.
idprop_data_path(target, key) ==
    [owner |-> target, custom |-> TRUE, name |-> key]
\* target.path_from_id(prop), with the array index drivers.new is given.
rna_data_path(target, prop, index) ==
    [owner |-> target, custom |-> FALSE, name |-> prop, index |-> index]

\* A path ending in ']' is a custom property: the text after the last '['
\* and its quote is the key. Otherwise the text after the last '.' is an RNA
\* property name, and none of those starts with the namespace prefix.
is_prefix_data_path(data_path) ==
    IF data_path.custom THEN startswith_prefix(data_path.name) ELSE FALSE

transform_paths ==
    {"location", "rotation_axis_angle", "rotation_euler",
     "rotation_quaternion", "scale"}

is_transform_data_path(data, data_path) ==
    /\ ~data_path.custom
    /\ data_path.owner = data
    /\ data_path.name \in transform_paths

\* The test of clear_id_drivers (data = OBJ) and of clear_bone_drivers.
clear_test(data, d) ==
    IF data = OBJ
    THEN ~d.lock /\ is_prefix_data_path(d.data_path)
    ELSE /\ ~d.lock
         /\ d.data_path.owner = data
         /\ (is_prefix_data_path(d.data_path)
                \/ is_transform_data_path(data, d.data_path))

RemoveAt(s, i) == SubSeq(s, 1, i - 1) \o SubSeq(s, i + 1, Len(s))

\* After drivers.remove(d) the loop "for d in anim_data.drivers" reads its
\* next element from the element just freed: the element that followed d
\* comes next, or that element is passed over, or the loop ends there.
after_remove(ds, i) == {i, i + 1, Len(ds) + 1}

\* "for d in anim_data.drivers: if test(d): anim_data.drivers.remove(d)"
\* from position i on: every collection the loop can leave behind.
RECURSIVE remove_loop(_, _, _)
remove_loop(data, ds, i) ==
    IF i > Len(ds) THEN {ds}
    ELSE IF clear_test(data, ds[i])
         THEN UNION { remove_loop(data, RemoveAt(ds, i), j) :
                        j \in after_remove(RemoveAt(ds, i), i) }
         ELSE remove_loop(data, ds, i + 1)

clear_id_drivers(data, ds) == remove_loop(data, ds, 1)
clear_bone_drivers(data, ds) == remove_loop(data, ds, 1)

\* "for key, value in data.items(): if key.startswith(prefix): del ..."
\* over the list data.items() returns: applies to props and to _RNA_UI.
\* Applied to the properties and, for the keys found there, to _RNA_UI.
clear_properties(data, p, m) ==
    LET gone == { k \in DOMAIN p : k[1] = data /\ startswith_prefix(k[2]) }
    IN  [k \in DOMAIN m \ gone |-> m[k]]
clear_id_properties(data, p, m) == clear_properties(data, p, m)
clear_bone_properties(data, p, m) == clear_properties(data, p, m)

\* The bones of the armature, in the order obj.pose.bones yields them.
pose_bones == <<"A", "B">>

RECURSIVE clear_bones(_, _)
clear_bones(ds, i) ==
    IF i > Len(pose_bones) THEN {ds}
    ELSE UNION { clear_bones(d2, i + 1) : d2 \in clear_bone_drivers(pose_bones[i], ds) }

\* cleanup_armature(obj): every driver collection it can leave behind.
cleanup_drivers(ds) ==
    UNION { clear_bones(d1, 1) : d1 \in clear_id_drivers(OBJ, ds) }

\* cleanup_armature(obj) on the properties: the object, then each bone.
RECURSIVE clear_all_properties(_, _, _)
clear_all_properties(p, m, i) ==
    IF i > Len(pose_bones) THEN m
    ELSE clear_all_properties(p, clear_bone_properties(pose_bones[i], p, m), i + 1)
cleanup_properties(p, m) ==
    clear_all_properties(p, clear_id_properties(OBJ, p, m), 1)

\* add_idprop assigning target[prop] = value whether or not the key exists.
add_idprop_overwrite(w, target, prop, value, min, max) ==
    LET k == <<target, idprop_uuid(target, prop)>>
        ui == [default |-> value, min |-> min, max |-> max]
    IN  World((k :> value) @@ w.props,
              (k :> ui) @@ w.rna_ui,
              w.drivers,
              Append(w.log, [op |-> "scalar", target |-> target, key |-> k[2]]))

\* add_idprop(target, prop, value, min, max)
add_idprop(w, target, prop, value, min, max) ==
    LET k == <<target, idprop_uuid(target, prop)>>
        ui == [default |-> value, min |-> min, max |-> max]
    IN  World(IF k \in DOMAIN w.props THEN w.props ELSE (k :> value) @@ w.props,
              (k :> ui) @@ w.rna_ui,
              w.drivers,
              Append(w.log, [op |-> "scalar", target |-> target, key |-> k[2]]))

\* drivers.new(data_path) with driver.type = 'SCRIPTED', then the fields
\* make_driver sets on it.
new_driver(w, data_path, expression, variables, use_self) ==
    LET d == [data_path |-> data_path, type |-> "SCRIPTED",
              expression |-> expression, variables |-> variables,
              use_self |-> use_self, lock |-> FALSE]
    IN  World(w.props, w.rna_ui, Append(w.drivers, d),
              Append(w.log, [op |-> "driver", data_path |-> data_path]))

\* ------------------------------------------------------------- node values
RotationValue(target, axis) ==
    [type |-> "RotationValue", target |-> target, axis |-> axis, condition |-> None]
IDPropHandle(target, prop) ==
    [type |-> "IDPropValue", target |-> target, prop |-> prop, condition |-> None]
OutputHandle(target, prop, condition) ==
    [type |-> "OutputValue", target |-> target, prop |-> prop, condition |-> condition]

NodeValueTypes == {"RotationValue", "IDPropValue", "OutputValue"}
isinstance_NodeValue(v) == v.type \in NodeValueTypes

\* IDPropValue.__init__: the scalar is created only when a value is given.
IDPropValue(w, target, prop, value, min, max) ==
    [w |-> IF value # None
           THEN add_idprop(w, target, prop, value,
                           IF min = None THEN neg_float_max ELSE min,
                           IF max = None THEN float_max ELSE max)
           ELSE w,
     val |-> IDPropHandle(target, prop)]

\* OutputValue.__init__: the scalar, then its companion condition scalar
\* "if condprop": an absent or empty name gives no companion.
OutputValue(w, target, prop, condprop, value, min, max) ==
    LET base == IDPropValue(w, target, prop, value, min, max)
        cond == IDPropValue(base.w, target, condprop, num(1), num(0), num(1))
    IN  IF condprop # ""
        THEN [w |-> cond.w, val |-> OutputHandle(target, prop, cond.val)]
        ELSE [w |-> base.w, val |-> OutputHandle(target, prop, None)]

\* self_prop() handing out the value itself, which make_driver then
\* declares as a variable.
self_prop_declared(v) == v

\* self_prop(): the text that reads the driven owner's own stored value.
self_prop(v) ==
    IF v.type = "RotationValue"
    THEN [type |-> "self", text |-> "rotation_euler." \o axisname[v.axis + 1]]
    ELSE [type |-> "self", key |-> idprop_uuid(v.target, v.prop)]

\* make_driver_variable taking the transform type of the next axis.
make_driver_variable_axis(name, v) ==
    IF v.type = "RotationValue"
    THEN [name |-> name, type |-> "TRANSFORMS", bone_target |-> v.target,
          transform_type |-> driver_axis_types[((v.axis + 1) % 3) + 1],
          transform_space |-> "TRANSFORM_SPACE", rotation_mode |-> "AUTO"]
    ELSE [name |-> name, type |-> "SINGLE_PROP",
          data_path |-> idprop_data_path(v.target, idprop_uuid(v.target, v.prop))]

\* make_driver_variable: add_rotation_variable / add_idprop_variable
make_driver_variable(name, v) ==
    IF v.type = "RotationValue"
    THEN [name |-> name, type |-> "TRANSFORMS", bone_target |-> v.target,
          transform_type |-> driver_axis_types[v.axis + 1],
          transform_space |-> "TRANSFORM_SPACE", rotation_mode |-> "AUTO"]
    ELSE [name |-> name, type |-> "SINGLE_PROP",
          data_path |-> idprop_data_path(v.target, idprop_uuid(v.target, v.prop))]

\* The keyword bindings of a make_driver call, in call order: a NodeValue
\* becomes a driver variable, anything else is text put into the expression.
binding_variables(bindings) ==
    LET vs == SelectSeq(bindings, LAMBDA b : isinstance_NodeValue(b[2]))
    IN  [i \in 1..Len(vs) |-> make_driver_variable(vs[i][1], vs[i][2])]
binding_text(bindings) ==
    SelectSeq(bindings, LAMBDA b : ~isinstance_NodeValue(b[2]))

\* NodeValue.make_driver(expression, **bindings, use_self)
make_driver(w, self, expression, bindings, use_self) ==
    new_driver(w,
        IF self.type = "RotationValue"
        THEN rna_data_path(self.target, "rotation_euler", self.axis)
        ELSE idprop_data_path(self.target, idprop_uuid(self.target, self.prop)),
        [template |-> expression, text |-> binding_text(bindings)],
        binding_variables(bindings),
        use_self)

\* ---------------------------------------------------------- setup_armature
\* setup_armature without the driver that commits frame_prev.
setup_armature_no_commit(w, frame_current) ==
    LET frame_delta == IDPropValue(w, OBJ, "frame_delta", num(0), None, None)
        frame_prev == IDPropValue(frame_delta.w, OBJ, "frame_prev",
                                  num(frame_current), None, None)
    IN  make_driver(frame_prev.w, frame_delta.val, "frame - {frame_prev}",
                    << <<"frame_prev", self_prop(frame_prev.val)>> >>, TRUE)

\* setup_armature with the frame_prev driver given no variable.
setup_armature_no_dependency(w, frame_current) ==
    LET frame_delta == IDPropValue(w, OBJ, "frame_delta", num(0), None, None)
        frame_prev == IDPropValue(frame_delta.w, OBJ, "frame_prev",
                                  num(frame_current), None, None)
        w1 == make_driver(frame_prev.w, frame_delta.val, "frame - {frame_prev}",
                          << <<"frame_prev", self_prop(frame_prev.val)>> >>, TRUE)
    IN  make_driver(w1, frame_prev.val, "frame", <<>>, FALSE)

setup_armature(w, frame_current) ==
    LET frame_delta == IDPropValue(w, OBJ, "frame_delta", num(0), None, None)
        frame_prev == IDPropValue(frame_delta.w, OBJ, "frame_prev",
                                  num(frame_current), None, None)
        w1 == make_driver(frame_prev.w, frame_delta.val, "frame - {frame_prev}",
                          << <<"frame_prev", self_prop(frame_prev.val)>> >>, TRUE)
    IN  make_driver(w1, frame_prev.val, "frame",
                    << <<"delta", frame_delta.val>> >>, FALSE)


\* ------------------------------------------------------------ node builds
\* NodeContext.from_gear(target_gear), with the scope build_drivers sets.
NodeContext(target_gear, scope) == [target_gear |-> target_gear, scope |-> scope]

\* FrameDeltaValue.from_context passing a value, which creates the scalar.
FrameDeltaValue_from_context_create(w, context) ==
    IDPropValue(w, OBJ, "frame_delta", num(0), None, None)

\* FrameDeltaValue.from_context naming the frame_prev scalar.
FrameDeltaValue_from_context_prev(w, context) ==
    IDPropValue(w, OBJ, "frame_prev", None, None, None)

\* FrameDeltaValue.from_context(context): no value, so nothing is created.
FrameDeltaValue_from_context(w, context) ==
    IDPropValue(w, OBJ, "frame_delta", None, None, None)

\* Result of one node's build_drivers: the backend, the node's attributes
\* and the exception it raised, if any.
Built(w, a, e) == [w |-> w, attrs |-> a, err |-> e]

\* GearNode.build_drivers without the driver of the companion condition.
GearNode_build_drivers_no_condition(w, self, a, context) ==
    LET rotation == RotationValue(context.target_gear.pose_bone,
                                  context.target_gear.axis)
    IN  Built(make_driver(w, rotation, "gear_rotation",
                          << <<"gear_rotation", a["input_value"]>> >>, FALSE),
              a, NoError)

\* GearNode.build_drivers
GearNode_build_drivers(w, self, a, context) ==
    LET rotation == RotationValue(context.target_gear.pose_bone,
                                  context.target_gear.axis)
        w1 == make_driver(w, rotation, "gear_rotation",
                          << <<"gear_rotation", a["input_value"]>> >>, FALSE)
    IN  IF a["condition_value"] = None THEN Built(w1, a, NoError)
        ELSE IF a["input_value"] = None
        THEN Built(w1, a, Raise("AttributeError", "condition"))
        ELSE IF a["input_value"].condition = None
        THEN Built(w1, a, Raise("AttributeError", "make_driver"))
        ELSE Built(make_driver(w1, a["input_value"].condition, "cond",
                               << <<"cond", a["condition_value"]>> >>, FALSE),
                   a, NoError)

\* ConstRotationNode.build_drivers
ConstRotationNode_build_drivers(w, self, a, context) ==
    LET bone == context.target_gear.pose_bone
        speed == IDPropValue(w, bone, context.scope \o "speed",
                             num(self.default_speed), None, None)
        self_rotation == RotationValue(bone, context.target_gear.axis)
        rotation == OutputValue(speed.w, bone, context.scope \o "rotation",
                                context.scope \o "condition", num(0), None, None)
        frame_delta == FrameDeltaValue_from_context(rotation.w, context)
        w1 == make_driver(frame_delta.w, rotation.val,
                "{curval} + {speed} * {delta} if {cond} else {rot}",
                << <<"rot", self_prop(self_rotation)>>,
                   <<"curval", self_prop(rotation.val)>>,
                   <<"speed", speed.val>>,
                   <<"delta", frame_delta.val>>,
                   <<"cond", rotation.val.condition>> >>, TRUE)
    IN  Built(w1, [a EXCEPT !["output_value"] = rotation.val], NoError)

\* TransmissionNode.build_drivers
TransmissionNode_build_drivers(w, self, a, context) ==
    LET bone == context.target_gear.pose_bone
        tooth_phase == IDPropValue(w, bone, context.scope \o "tooth_phase",
                                   num(0), num(0), num(1))
        self_rotation == RotationValue(bone, context.target_gear.axis)
        input_rotation == RotationValue(self.input_gear.pose_bone,
                                        self.input_gear.axis)
        rotation == OutputValue(tooth_phase.w, bone, context.scope \o "rotation",
                                context.scope \o "condition", num(0), None, None)
        tooth_offset == IDPropValue(rotation.w, bone,
                                    context.scope \o "tooth_offset",
                                    num(0), None, None)
        ratio == [type |-> "ratio", n |-> self.input_teeth, d |-> self.output_teeth]
        w1 == make_driver(tooth_offset.w, rotation.val,
                "{input}*{ratio} + 2*pi*({tooth_offset}+{tooth_phase})/{tooth_count} if {cond} else {rot}",
                << <<"rot", self_prop(self_rotation)>>,
                   <<"curval", self_prop(rotation.val)>>,
                   <<"input", input_rotation>>,
                   <<"ratio", ratio>>,
                   <<"tooth_offset", tooth_offset.val>>,
                   <<"tooth_count", num(self.output_teeth)>>,
                   <<"tooth_phase", tooth_phase.val>>,
                   <<"cond", rotation.val.condition>> >>, TRUE)
        w2 == make_driver(w1, tooth_offset.val,
                "{curval} if {cond} else round({tooth_count}*({rot}-{input}*{ratio})/(2*pi))",
                << <<"rot", self_prop(self_rotation)>>,
                   <<"curval", self_prop(tooth_offset.val)>>,
                   <<"input", input_rotation>>,
                   <<"ratio", ratio>>,
                   <<"tooth_count", num(self.output_teeth)>>,
                   <<"cond", rotation.val.condition>> >>, TRUE)
    IN  IF self.output_teeth = 0
        THEN Built(tooth_offset.w, a, Raise("ZeroDivisionError", "division by zero"))
        ELSE Built(w2, [a EXCEPT !["output_value"] = rotation.val], NoError)

\* The fraction of a revolution of an angle: angle/(2*pi) - floor(angle/(2*pi)).
revolution_fraction(angle) ==
    [type |-> "frac", n |-> angle % AngleUnits, d |-> AngleUnits]

\* RangeConditionNode.build_drivers taking the expression of start <= stop
\* whatever the angles are.
RangeConditionNode_build_drivers_and(w, self, a, context) ==
    LET input_rotation == RotationValue(self.pose_bone, self.axis)
        condition == IDPropValue(w, context.target_gear.pose_bone,
                                 context.scope \o "condition", num(0), None, None)
        w1 == make_driver(condition.w, condition.val,
                "1.0 if {input}*{C}-floor({input}*{C}) >= {start} and {input}*{C}-floor({input}*{C}) < {stop} else 0.0",
                << <<"input", input_rotation>>,
                   <<"C", [type |-> "one_over_two_pi"]>>,
                   <<"start", revolution_fraction(self.start_angle)>>,
                   <<"stop", revolution_fraction(self.stop_angle)>> >>, FALSE)
    IN  Built(w1, [a EXCEPT !["condition_value"] = condition.val], NoError)

\* RangeConditionNode.build_drivers
RangeConditionNode_build_drivers(w, self, a, context) ==
    LET input_rotation == RotationValue(self.pose_bone, self.axis)
        condition == IDPropValue(w, context.target_gear.pose_bone,
                                 context.scope \o "condition", num(0), None, None)
        start == revolution_fraction(self.start_angle)
        stop == revolution_fraction(self.stop_angle)
        expr == IF start.n <= stop.n
                THEN "1.0 if {input}*{C}-floor({input}*{C}) >= {start} and {input}*{C}-floor({input}*{C}) < {stop} else 0.0"
                ELSE "1.0 if {input}*{C}-floor({input}*{C}) >= {start} or {input}*{C}-floor({input}*{C}) < {stop} else 0.0"
        w1 == make_driver(condition.w, condition.val, expr,
                << <<"input", input_rotation>>,
                   <<"C", [type |-> "one_over_two_pi"]>>,
                   <<"start", start>>,
                   <<"stop", stop>> >>, FALSE)
    IN  Built(w1, [a EXCEPT !["condition_value"] = condition.val], NoError)

\* inode.build_drivers(context), dispatched on the node's class.
node_build_drivers(w, self, a, context) ==
    CASE self.kind = "GearNode" -> GearNode_build_drivers(w, self, a, context)
      [] self.kind = "ConstRotationNode" ->
            ConstRotationNode_build_drivers(w, self, a, context)
      [] self.kind = "TransmissionNode" ->
            TransmissionNode_build_drivers(w, self, a, context)
      [] self.kind = "RangeConditionNode" ->
            RangeConditionNode_build_drivers(w, self, a, context)

\* ---------------------------------------------------------- link resolution
\* getattr(srcnode, srcname, None): a missing name yields None.
getattr_default(a, srcnode, srcname) ==
    IF a[srcnode][srcname] = Missing THEN None ELSE a[srcnode][srcname]

\* getattr(srcnode, srcname)
getattr(a, srcnode, srcname) == a[srcnode][srcname]

\* "for inname, srcnode, srcname in inode.links: setattr(inode, inname,
\* getattr(srcnode, srcname))" from link i on. done lists what was copied.
RECURSIVE resolve_links(_, _, _, _, _)
resolve_links(a, inode, ls, i, done) ==
    IF i > Len(ls) THEN [attrs |-> a, err |-> NoError, resolved |-> done]
    ELSE LET v == getattr(a, ls[i][2], ls[i][3])
         IN  IF v = Missing
             THEN [attrs |-> a, err |-> Raise("AttributeError", "getattr"),
                   resolved |-> done]
             ELSE resolve_links([a EXCEPT ![inode][ls[i][1]] = v], inode, ls, i + 1,
                      Append(done, [consumer |-> inode, input_name |-> ls[i][1],
                                    producer |-> ls[i][2], output_name |-> ls[i][3],
                                    value |-> v]))

\* context.scope = "Node{index}_".format(index=index)
scope_format(index) == "Node" \o ToString(index) \o "_"


\* ------------------------------------------------- gather_expression_nodes
\* visit(node) with the cycle test returning silently instead of raising.
visit_check_no_raise(node, m, v) ==
    IF node \in m \cup v THEN "return" ELSE "descend"

\* visit(node) with one set for "being visited" and "done".
visit_check_one_set(node, m, v) ==
    IF node \in m \cup v THEN "raise" ELSE "descend"

\* visit(node) without the test "if node in marked: return".
visit_check_no_marked(node, m, v) ==
    IF node \in v THEN "raise" ELSE "descend"

\* The first three statements of visit(node).
visit_check(node, m, v) ==
    IF node \in m THEN "return"
    ELSE IF node \in v THEN "raise"
    ELSE "descend"

\* sorted.insert(0, node): the order reversed.
sorted_prepend(s, node) == <<node>> \o s

\* sorted.append(node)
sorted_append(s, node) == Append(s, node)

\* visited.remove(node)
visited_remove(v, node) == v \ {node}

Top == stack[Len(stack)]
Pop == SubSeq(stack, 1, Len(stack) - 1)
SetTop(f) == [stack EXCEPT ![Len(stack)] = f]

\* Where build_drivers goes once a call of visit has returned: back into the
\* caller's loop over its links, or, from the root call, on to the builds.
visit_returns ==
    /\ stack' = Pop
    /\ IF Len(stack) = 1
       THEN pc' = "build" /\ bi' = 1
       ELSE pc' = "gather" /\ bi' = bi

\* The conditions under which each step of build_drivers is the next one.
at_return == pc = "nodes" /\ ai > Len(nodes)
at_skip_node == pc = "nodes" /\ ai <= Len(nodes) /\ ~isinstance_GearNode(ai)
at_gather == pc = "nodes" /\ ai <= Len(nodes) /\ isinstance_GearNode(ai)
at_visit_enter == pc = "gather" /\ Len(stack) > 0 /\ Top.li = 0
at_visit_links ==
    pc = "gather" /\ Len(stack) > 0 /\ Top.li \in 1..Len(links[Top.node])
at_visit_done ==
    pc = "gather" /\ Len(stack) > 0 /\ Top.li > Len(links[Top.node])
at_build_node == pc = "build" /\ bi <= Len(sorted)
at_next_node == pc = "build" /\ bi > Len(sorted)

\* ----------------------------------------------------------------- actions
\* Node.link(input_name, source_node, source_name), while the graph is made.
link(n, input_name, source_node, source_name) ==
    /\ pc = "idle"
    /\ run = 0
    /\ links' = [links EXCEPT ![n] =
                    Append(@, <<input_name, source_node, source_name>>)]
    /\ UNCHANGED <<nodes, attrs, pc, err, ai, run, steps, first>>
    /\ UNCHANGED <<gatherVars, backendVars, hostVars>>
    /\ UNCHANGED <<bi, built, scopes, resolved, log, anchor_log>>

\* build_drivers(obj, nodes, frame_current) up to its loop over nodes:
\* cleanup_armature, then setup_armature. Every GearDescriptor asserts that
\* obj is an armature, so the type test of build_drivers passes.
build_drivers(frame_current) ==
    /\ \E ds \in cleanup_drivers(drivers) :
         LET w == setup_armature(
                     World(cleanup_properties(props, props),
                           cleanup_properties(props, rna_ui), ds, <<>>),
                     frame_current)
         IN  /\ props' = w.props
             /\ rna_ui' = w.rna_ui
             /\ drivers' = w.drivers
             /\ log' = w.log
    /\ pc' = "nodes"
    /\ err' = NoError
    /\ ai' = 1
    /\ run' = run + 1
    /\ steps' = 1
    /\ scopes' = <<>>
    /\ resolved' = <<>>
    /\ anchor_log' = 0
    /\ built' = {}
    /\ UNCHANGED <<nodes, links, attrs, bi, first>>
    /\ UNCHANGED gatherVars

\* "for node in nodes" has run out: build_drivers returns.
build_drivers_return ==
    /\ at_return
    /\ steps' = steps + 1
    /\ pc' = "done"
    /\ first' = IF run = 1
                THEN [props |-> props, rna_ui |-> rna_ui, drivers |-> drivers]
                ELSE first
    /\ UNCHANGED <<nodes, links, err, ai, run>>
    /\ UNCHANGED <<gatherVars, backendVars, buildVars, hostVars>>

\* "if isinstance(node, GearNode)" fails: the node is no anchor.
skip_node ==
    /\ at_skip_node
    /\ steps' = steps + 1
    /\ ai' = ai + 1
    /\ UNCHANGED <<nodes, links, pc, err, run, first>>
    /\ UNCHANGED <<gatherVars, backendVars, buildVars, hostVars>>

\* gather_expression_nodes(node) is called: visit(rootnode) is entered.
gather_expression_nodes ==
    /\ at_gather
    /\ steps' = steps + 1
    /\ marked' = {} /\ visited' = {} /\ sorted' = <<>>
    /\ stack' = << [node |-> ai, li |-> 0] >>
    /\ pc' = "gather"
    /\ anchor_log' = Len(log)
    /\ built' = {}
    /\ UNCHANGED <<nodes, links, err, ai, run, first>>
    /\ UNCHANGED <<attrs, bi, scopes, resolved, log>>
    /\ UNCHANGED <<backendVars, hostVars>>

\* visit(node), its entry: return, raise, or mark as being visited.
visit_enter ==
    /\ at_visit_enter
    /\ steps' = steps + 1
    /\ LET c == visit_check(Top.node, marked, visited)
       IN  CASE c = "return" ->
                  /\ visit_returns
                  /\ UNCHANGED <<visited, err>>
             [] c = "raise" ->
                  /\ pc' = "error"
                  /\ err' = Raise("Exception", "Found cyclic node dependency")
                  /\ UNCHANGED <<visited, stack, bi>>
             [] c = "descend" ->
                  /\ visited' = visited \cup {Top.node}
                  /\ stack' = SetTop([Top EXCEPT !.li = 1])
                  /\ UNCHANGED <<pc, err, bi>>
    /\ UNCHANGED <<nodes, links, ai, run, first, marked, sorted>>
    /\ UNCHANGED <<attrs, built, scopes, resolved, log, anchor_log>>
    /\ UNCHANGED <<backendVars, hostVars>>

\* visit(node), one turn of "for inname, srcnode, srcname in node.links".
visit_links ==
    /\ at_visit_links
    /\ steps' = steps + 1
    /\ LET srcnode == links[Top.node][Top.li][2]
           on == SetTop([Top EXCEPT !.li = @ + 1])
       IN  stack' = IF isinstance_ExpressionNode(srcnode)
                    THEN Append(on, [node |-> srcnode, li |-> 0])
                    ELSE on
    /\ UNCHANGED <<nodes, links, pc, err, ai, run, first, marked, visited, sorted>>
    /\ UNCHANGED <<backendVars, buildVars, hostVars>>

\* visit(node), after the loop: the node is done and joins the order.
visit_done ==
    /\ at_visit_done
    /\ steps' = steps + 1
    /\ visited' = visited_remove(visited, Top.node)
    /\ marked' = marked \cup {Top.node}
    /\ sorted' = sorted_append(sorted, Top.node)
    /\ visit_returns
    /\ UNCHANGED <<nodes, links, err, ai, run, first>>
    /\ UNCHANGED <<attrs, built, scopes, resolved, log, anchor_log>>
    /\ UNCHANGED <<backendVars, hostVars>>

\* The loop over input_nodes going on after an exception.
after_build_swallow(e) == "build"

\* Where the loop over input_nodes goes after a node: on, or out with the
\* exception the node's link resolution or build raised.
after_build(e) == IF e = NoError THEN "build" ELSE "error"

\* One turn of "for index, inode in enumerate(input_nodes)": the scope, the
\* links, the node's build.
build_node ==
    /\ at_build_node
    /\ steps' = steps + 1
    /\ LET inode == sorted[bi]
           context == NodeContext(nodes[ai].target_gear, scope_format(bi - 1))
           r == resolve_links(attrs, inode, links[inode], 1, <<>>)
           b == IF r.err = NoError
                THEN node_build_drivers(World(props, rna_ui, drivers, log),
                                        nodes[inode], r.attrs[inode], context)
                ELSE Built(World(props, rna_ui, drivers, log),
                           r.attrs[inode], r.err)
       IN  /\ scopes' = Append(scopes, [anchor |-> ai, node |-> inode,
                                        scope |-> context.scope,
                                        log_len |-> Len(log)])
           /\ resolved' = [i \in 1..Len(r.resolved) |->
                             [link |-> r.resolved[i],
                              producer_built |-> r.resolved[i].producer \in built]]
           /\ attrs' = [r.attrs EXCEPT ![inode] = b.attrs]
           /\ props' = b.w.props
           /\ rna_ui' = b.w.rna_ui
           /\ drivers' = b.w.drivers
           /\ log' = b.w.log
           /\ err' = b.err
           /\ pc' = after_build(b.err)
           /\ built' = built \cup {inode}
    /\ bi' = bi + 1
    /\ UNCHANGED <<nodes, links, ai, run, first, anchor_log>>
    /\ UNCHANGED <<gatherVars, hostVars>>

\* The loop over input_nodes has run out: on to the next node of the list.
next_node ==
    /\ at_next_node
    /\ steps' = steps + 1
    /\ pc' = "nodes"
    /\ ai' = ai + 1
    /\ UNCHANGED <<nodes, links, err, run, first>>
    /\ UNCHANGED <<gatherVars, backendVars, buildVars, hostVars>>

\* ------------------------------------------------------------- one compile
\* Every bone at rest.
RestPose == [b \in Bones |-> [a \in 0..2 |-> 0]]

Init ==
    /\ InitCommon
    /\ rotation_euler = RestPose
    /\ nodes \in NodeLists

MakeGraph ==
    \E n \in NodeIds, source_node \in NodeIds, names \in LinkNames :
        /\ TotalLinks < MaxLinks
        /\ link(n, names[1], source_node, names[2])

Compile ==
    /\ pc = "idle"
    /\ build_drivers(frame)
    /\ UNCHANGED hostVars

Next ==
    \/ MakeGraph
    \/ Compile
    \/ build_drivers_return
    \/ skip_node
    \/ gather_expression_nodes
    \/ visit_enter
    \/ visit_links
    \/ visit_done
    \/ build_node
    \/ next_node

Spec == Init /\ [][Next]_vars


\* ------------------------------------------------ compile, clear, compile
\* cleanup_armature(obj), called by the owner of the armature.
cleanup_armature ==
    /\ pc \in {"done", "error"}
    /\ run = 1
    /\ \E ds \in cleanup_drivers(drivers) : drivers' = ds
    /\ props' = cleanup_properties(props, props)
    /\ rna_ui' = cleanup_properties(props, rna_ui)
    /\ pc' = "cleared"
    /\ UNCHANGED <<nodes, links, err, ai, run, steps, first>>
    /\ UNCHANGED <<gatherVars, buildVars, hostVars>>

MakeGraphRebuild ==
    \E n \in NodeIds, source_node \in NodeIds, names \in LinkNames :
        /\ TotalLinks < MaxRebuildLinks
        /\ link(n, names[1], source_node, names[2])

\* build_drivers called again on the same nodes at the same frame.
Recompile ==
    /\ pc = "cleared"
    /\ first # None
    /\ build_drivers(frame)
    /\ UNCHANGED hostVars

NextRebuild ==
    \/ MakeGraphRebuild
    \/ Compile
    \/ build_drivers_return
    \/ skip_node
    \/ gather_expression_nodes
    \/ visit_enter
    \/ visit_links
    \/ visit_done
    \/ build_node
    \/ next_node
    \/ cleanup_armature
    \/ Recompile

SpecRebuild == Init /\ [][NextRebuild]_vars

\* ------------------------------------- an armature with state of its own
\* A custom property key outside the namespace.
user_key(name) == [prefix |-> "", bone |-> "", name |-> name]

\* A driver as the user makes one: one expression, no variable.
user_driver(data_path, lock) ==
    [data_path |-> data_path, type |-> "SCRIPTED",
     expression |-> [template |-> "var", text |-> <<>>], variables |-> <<>>,
     use_self |-> FALSE, lock |-> lock]

\* The drivers clear_id_drivers and clear_bone_drivers can meet that the
\* compiler did not create: on a custom property outside the namespace, on
\* a bone's location, locked on a bone's rotation, locked on a property of
\* the namespace, and on a bone property that is no transform.
UserDrivers ==
    { user_driver(idprop_data_path("A", user_key("offset")), FALSE),
      user_driver(rna_data_path("A", "location", 0), FALSE),
      user_driver(rna_data_path("A", "rotation_euler", 2), TRUE),
      user_driver(idprop_data_path(OBJ, idprop_uuid(OBJ, "frame_delta")), TRUE),
      user_driver(rna_data_path("B", "ik_stretch", 0), FALSE) }

\* The custom properties clear_id_properties and clear_bone_properties can
\* meet outside the namespace.
UserKeys == { <<OBJ, user_key("offset")>>, <<"A", user_key("offset")>> }

\* The user adds a driver to the armature that is not compiled yet.
UserDriver ==
    \E d \in UserDrivers :
        /\ pc = "idle"
        /\ Len(drivers) < MaxUserDrivers
        /\ drivers' = Append(drivers, d)
        /\ UNCHANGED <<nodes, links, pc, err, ai, run, steps, first, props, rna_ui>>
        /\ UNCHANGED <<gatherVars, buildVars, hostVars>>

\* The user adds a custom property to the armature or to a bone.
UserProperty ==
    \E k \in UserKeys :
        /\ pc = "idle"
        /\ k \notin DOMAIN props
        /\ props' = (k :> num(1)) @@ props
        /\ UNCHANGED <<nodes, links, pc, err, ai, run, steps, first, rna_ui, drivers>>
        /\ UNCHANGED <<gatherVars, buildVars, hostVars>>

InitForeign ==
    /\ InitCommon
    /\ rotation_euler = RestPose
    /\ nodes \in NodeLists

NextForeign ==
    \/ UserDriver
    \/ UserProperty
    \/ Compile
    \/ build_drivers_return
    \/ skip_node
    \/ gather_expression_nodes
    \/ visit_enter
    \/ visit_done
    \/ build_node
    \/ next_node
    \/ cleanup_armature
    \/ Recompile

SpecForeign == InitForeign /\ [][NextForeign]_vars

\* ------------------------------------------------------ host evaluation
\* The host evaluates every driver once per pass, a driver only after the
\* drivers that write what its variables read; reads through "self" are
\* no dependency and see the value stored at that moment.
frame_delta_key == <<OBJ, idprop_uuid(OBJ, "frame_delta")>>
frame_prev_key == <<OBJ, idprop_uuid(OBJ, "frame_prev")>>

\* Driver d writes what variable v reads: the property of a SINGLE_PROP
\* variable, or a transform channel of the bone of a TRANSFORMS variable.
writes_variable(d, v) ==
    IF v.type = "SINGLE_PROP"
    THEN v.data_path = d.data_path
    ELSE is_transform_data_path(v.bone_target, d.data_path)

\* The drivers whose output driver i declares a variable on.
depends_on(i) ==
    { j \in 1..Len(drivers) :
        \E k \in 1..Len(drivers[i].variables) :
            writes_variable(drivers[j], drivers[i].variables[k]) }

\* The text bound to a placeholder of the driver's expression.
text_of(d, name) ==
    LET i == CHOOSE k \in 1..Len(d.expression.text) : d.expression.text[k][1] = name
    IN  d.expression.text[i][2]

\* The driver variable of that name.
variable_of(d, name) ==
    d.variables[CHOOSE k \in 1..Len(d.variables) : d.variables[k].name = name]

\* The index of an axis in a table indexed from 0.
axis_index(table, entry) == (CHOOSE k \in 1..Len(table) : table[k] = entry) - 1

\* self['<key>'] or self.rotation_euler.<axis> on the driven property's owner.
self_read(d, t, p, r) ==
    IF "key" \in DOMAIN t
    THEN p[<<d.data_path.owner, t.key>>].v
    ELSE r[d.data_path.owner][
            CHOOSE a \in 0..2 : t.text = "rotation_euler." \o axisname[a + 1]]

\* The value the host hands to the expression for a variable.
variable_read(v, p, r) ==
    IF v.type = "SINGLE_PROP"
    THEN p[<<v.data_path.owner, v.data_path.name>>].v
    ELSE r[v.bone_target][axis_index(driver_axis_types, v.transform_type)]

\* floor(p/q) in the place of round(p/q).
round_down(p, q) == p \div q

\* Python's round(p/q) for q > 0: to the nearest integer, a half to the even.
round(p, q) ==
    LET f == p \div q
        m == p % q
    IN  IF 2 * m < q THEN f
        ELSE IF 2 * m > q THEN f + 1
        ELSE IF f % 2 = 0 THEN f ELSE f + 1

\* x*C - floor(x*C) for C = 1/(2*pi), x in angle units.
fraction_units(x) == x % AngleUnits

\* Every name of the expression is bound: a variable reads an existing
\* property, and no placeholder was filled with None.
evaluates(d, p) ==
    /\ \A k \in 1..Len(d.variables) :
          d.variables[k].type = "SINGLE_PROP" =>
              <<d.variables[k].data_path.owner, d.variables[k].data_path.name>>
                  \in DOMAIN p
    /\ \A k \in 1..Len(d.expression.text) : d.expression.text[k][2] # None

\* The value of a driver's expression at scene frame f, for the properties
\* p and bone rotations r; angles in units of 2*pi/AngleUnits, exact for the
\* ratios and tooth counts that divide.
evaluate_expression(d, f, p, r) ==
    LET var(name) == variable_read(variable_of(d, name), p, r)
        self(name) == self_read(d, text_of(d, name), p, r)
        txt(name) == text_of(d, name)
        e == d.expression.template
    IN  CASE e = "frame - {frame_prev}" -> f - self("frame_prev")
          [] e = "frame" -> f
          [] e = "gear_rotation" -> var("gear_rotation")
          [] e = "cond" -> var("cond")
          [] e = "{curval} + {speed} * {delta} if {cond} else {rot}" ->
                IF var("cond") # 0
                THEN self("curval") + var("speed") * var("delta")
                ELSE self("rot")
          [] e = "{input}*{ratio} + 2*pi*({tooth_offset}+{tooth_phase})/{tooth_count} if {cond} else {rot}" ->
                IF var("cond") # 0
                THEN (var("input") * txt("ratio").n) \div txt("ratio").d
                     + (AngleUnits * (var("tooth_offset") + var("tooth_phase")))
                            \div txt("tooth_count").v
                ELSE self("rot")
          [] e = "{curval} if {cond} else round({tooth_count}*({rot}-{input}*{ratio})/(2*pi))" ->
                IF var("cond") # 0
                THEN self("curval")
                ELSE round(txt("tooth_count").v
                             * (self("rot") * txt("ratio").d
                                - var("input") * txt("ratio").n),
                           AngleUnits * txt("ratio").d)
          [] e = "1.0 if {input}*{C}-floor({input}*{C}) >= {start} and {input}*{C}-floor({input}*{C}) < {stop} else 0.0" ->
                IF /\ fraction_units(var("input")) >= txt("start").n
                   /\ fraction_units(var("input")) < txt("stop").n
                THEN 1 ELSE 0
          [] e = "1.0 if {input}*{C}-floor({input}*{C}) >= {start} or {input}*{C}-floor({input}*{C}) < {stop} else 0.0" ->
                IF \/ fraction_units(var("input")) >= txt("start").n
                   \/ fraction_units(var("input")) < txt("stop").n
                THEN 1 ELSE 0

\* The scene moves to frame f (or is evaluated again at its frame).
frame_change(f) ==
    /\ pc = "done"
    /\ pending = {}
    /\ frame' = f
    /\ pending' = 1..Len(drivers)
    /\ pass_prev' = props[frame_prev_key].v
    /\ pass_order' = <<>>
    /\ passes' = IF passes < PassCap THEN passes + 1 ELSE passes
    /\ snap' = [props |-> props, rotation_euler |-> rotation_euler, frame |-> frame]
    /\ UNCHANGED <<nodes, links, pc, err, ai, run, steps, first>>
    /\ UNCHANGED <<gatherVars, backendVars, buildVars, rotation_euler, call>>

\* The host evaluates one driver whose dependencies are up to date.
evaluate_driver(i) ==
    /\ i \in pending
    /\ depends_on(i) \cap pending = {}
    /\ LET d == drivers[i]
           value == evaluate_expression(d, frame, props, rotation_euler)
       IN  IF ~evaluates(d, props)
           THEN UNCHANGED <<props, rotation_euler>>
           ELSE IF d.data_path.custom
           THEN /\ props' = [props EXCEPT
                        ![<<d.data_path.owner, d.data_path.name>>] = num(value)]
                /\ UNCHANGED rotation_euler
           ELSE /\ rotation_euler' = [rotation_euler EXCEPT
                        ![d.data_path.owner][d.data_path.index] = value]
                /\ UNCHANGED props
    /\ pending' = pending \ {i}
    /\ pass_order' = Append(pass_order, i)
    /\ UNCHANGED <<nodes, links, pc, err, ai, run, steps, first>>
    /\ UNCHANGED <<gatherVars, buildVars, rna_ui, drivers, frame, pass_prev>>
    /\ UNCHANGED <<passes, snap, call>>

\* build_drivers(obj, [], frame_current): no node, only the frame timing.
InitFrame ==
    /\ InitCommon
    /\ rotation_euler = RestPose
    /\ nodes = <<>>

CompileAtFrame ==
    /\ pc = "idle"
    /\ \E frame_current \in 0..MaxFrame :
          /\ build_drivers(frame_current)
          /\ frame' = frame_current
          /\ UNCHANGED <<pending, pass_prev, pass_order, rotation_euler, passes, snap, call>>

HostPass == \E f \in 0..MaxFrame : frame_change(f)
HostEvaluate == \E i \in 1..Len(drivers) : evaluate_driver(i)

NextFrame ==
    \/ CompileAtFrame
    \/ build_drivers_return
    \/ HostPass
    \/ HostEvaluate

SpecFrame == InitFrame /\ [][NextFrame]_vars

\* ------------------------------------------- scalars created one by one
\* gearsim_namespace.add_idprop(target, prop, value, min, max), called
\* directly; call keeps the arguments, those of the call before, and the
\* properties as the call found them.
create_scalar(target, prop, value, min, max) ==
    LET w == add_idprop(World(props, rna_ui, drivers, log),
                        target, prop, value, min, max)
        args == [target |-> target, prop |-> prop, value |-> value,
                 min |-> min, max |-> max]
    IN  /\ pc = "idle"
        /\ Len(log) < MaxCalls
        /\ props' = w.props
        /\ rna_ui' = w.rna_ui
        /\ log' = w.log
        /\ call' = [args |-> args,
                    prev |-> IF call = None THEN None ELSE call.args,
                    before |-> [props |-> props, rna_ui |-> rna_ui],
                    live |-> TRUE]
        /\ UNCHANGED <<nodes, links, pc, err, ai, run, steps, first, drivers>>
        /\ UNCHANGED <<gatherVars, attrs, bi, built, scopes, resolved, anchor_log>>
        /\ UNCHANGED <<frame, pending, pass_prev, pass_order, rotation_euler, passes, snap>>

\* gearsim_namespace.set_idprop(target, prop, value) on a defined property.
set_idprop(target, prop, value) ==
    LET k == <<target, idprop_uuid(target, prop)>>
    IN  /\ pc = "idle"
        /\ k \in DOMAIN props
        /\ props' = [props EXCEPT ![k] = value]
        /\ call' = IF call = None THEN None ELSE [call EXCEPT !.live = FALSE]
        /\ UNCHANGED <<nodes, links, pc, err, ai, run, steps, first>>
        /\ UNCHANGED <<gatherVars, buildVars, rna_ui, drivers>>
        /\ UNCHANGED <<frame, pending, pass_prev, pass_order, rotation_euler, passes, snap>>

ScalarTargets == {OBJ, "A"}
ScalarNames == {"speed"}
ScalarValues == {num(0), num(1)}

CreateScalar ==
    \E target \in ScalarTargets, prop \in ScalarNames, value \in ScalarValues,
       min \in {num(0), neg_float_max}, max \in {float_max} :
        create_scalar(target, prop, value, min, max)

SetScalar ==
    \E target \in ScalarTargets, prop \in ScalarNames, value \in ScalarValues :
        set_idprop(target, prop, value)

InitScalar ==
    /\ InitCommon
    /\ rotation_euler = RestPose
    /\ nodes = <<>>

NextScalar == CreateScalar \/ SetScalar

SpecScalar == InitScalar /\ [][NextScalar]_vars

\* ------------------------------------------------ transmissions' teeth
InitTeeth ==
    /\ InitCommon
    /\ rotation_euler = RestPose
    /\ nodes \in TeethLists

MakeGraphTeeth ==
    \E n \in NodeIds, source_node \in NodeIds, names \in LinkNames :
        /\ TotalLinks < MaxTeethLinks
        /\ link(n, names[1], source_node, names[2])

NextTeeth ==
    \/ MakeGraphTeeth
    \/ Compile
    \/ build_drivers_return
    \/ skip_node
    \/ gather_expression_nodes
    \/ visit_enter
    \/ visit_links
    \/ visit_done
    \/ build_node
    \/ next_node

SpecTeeth == InitTeeth /\ [][NextTeeth]_vars

\* ------------------------------------------- drivers made one by one
\* The text s written k times.
RECURSIVE repeat(_, _)
repeat(s, k) ==
    IF k = 0 THEN ""
    ELSE LET h == repeat(s, k \div 2)
         IN  IF k % 2 = 0 THEN h \o h ELSE h \o h \o s

\* Expressions of 1, max_expr_len - 1, max_expr_len and max_expr_len + 1
\* characters: "1", "1+1+...+1", "+1+1+...+1" and "1+1+...+1".
Expressions ==
    { "1",
      "1" \o repeat("+1", (max_expr_len \div 2) - 1),
      repeat("+1", max_expr_len \div 2),
      "1" \o repeat("+1", max_expr_len \div 2) }

\* IDPropValue(target, prop).make_driver(expression, [], use_self), called
\* directly; call keeps the expression and the drivers as the call found
\* them.
IDPropValue_make_driver(target, prop, expression, use_self) ==
    LET w == make_driver(World(props, rna_ui, drivers, log),
                         IDPropHandle(target, prop), expression, <<>>, use_self)
    IN  /\ pc = "idle"
        /\ err = NoError
        /\ Len(drivers) < MaxDrivers
        /\ drivers' = w.drivers
        /\ log' = w.log
        /\ call' = [expression |-> expression, before |-> drivers]
        /\ UNCHANGED <<nodes, links, pc, err, ai, run, steps, first, props, rna_ui>>
        /\ UNCHANGED <<gatherVars, attrs, bi, built, scopes, resolved, anchor_log>>
        /\ UNCHANGED <<frame, pending, pass_prev, pass_order, rotation_euler, passes, snap>>

\* gear_drivers.make_idprop_driver(target, propname, expression, [], use_self)
make_idprop_driver(target, propname, expression, use_self) ==
    LET w == new_driver(World(props, rna_ui, drivers, log),
                        idprop_data_path(target, idprop_uuid(target, propname)),
                        [template |-> expression, text |-> <<>>], <<>>, use_self)
        fails == Len(expression) > max_expr_len
    IN  /\ pc = "idle"
        /\ err = NoError
        /\ Len(drivers) < MaxDrivers
        /\ drivers' = IF fails THEN drivers ELSE w.drivers
        /\ log' = IF fails THEN log ELSE w.log
        /\ err' = IF fails
                  THEN Raise("AssertionError", "Driver expression length exceeded")
                  ELSE NoError
        /\ call' = [expression |-> expression, before |-> drivers]
        /\ UNCHANGED <<nodes, links, pc, ai, run, steps, first, props, rna_ui>>
        /\ UNCHANGED <<gatherVars, attrs, bi, built, scopes, resolved, anchor_log>>
        /\ UNCHANGED <<frame, pending, pass_prev, pass_order, rotation_euler, passes, snap>>

MakeDriver ==
    \E target \in ScalarTargets, prop \in ScalarNames,
       expression \in Expressions, use_self \in BOOLEAN :
        IDPropValue_make_driver(target, prop, expression, use_self)

MakeIdpropDriver ==
    \E target \in ScalarTargets, prop \in ScalarNames,
       expression \in Expressions, use_self \in BOOLEAN :
        make_idprop_driver(target, prop, expression, use_self)

InitLength ==
    /\ InitCommon
    /\ rotation_euler = RestPose
    /\ nodes = <<>>

NextLength == MakeDriver \/ MakeIdpropDriver

SpecLength == InitLength /\ [][NextLength]_vars

\* ------------------------------------------------------ graph vocabulary
LinksOf(n) == { links[n][i] : i \in 1..Len(links[n]) }

\* The producers visit descends into from n.
ExprProducers(n) ==
    { l[2] : l \in { k \in LinksOf(n) : isinstance_ExpressionNode(k[2]) } }

RECURSIVE Closure(_)
Closure(S) ==
    LET T == S \cup UNION { ExprProducers(n) : n \in S }
    IN  IF T = S THEN S ELSE Closure(T)

\* The anchor and every node it reaches through ExpressionNode producers.
Reachable(a) == Closure({a})
OnCycle(n) == n \in Closure(ExprProducers(n))
HasCycle(a) == \E n \in Reachable(a) : OnCycle(n)

IndexIn(s, n) == CHOOSE i \in 1..Len(s) : s[i] = n
InSeq(s, n) == \E i \in 1..Len(s) : s[i] = n

\* The attribute a node class publishes as its output.
OutputNames(kind) ==
    CASE kind = "GearNode" -> {}
      [] kind = "ConstRotationNode" -> {"output_value"}
      [] kind = "TransmissionNode" -> {"output_value"}
      [] kind = "RangeConditionNode" -> {"condition_value"}

CycleError == Raise("Exception", "Found cyclic node dependency")
UnresolvedLink == Raise("AttributeError", "getattr")

\* Some step of build_drivers is the next one.
CanStep ==
    \/ at_return \/ at_skip_node \/ at_gather \/ at_visit_enter
    \/ at_visit_links \/ at_visit_done \/ at_build_node \/ at_next_node

\* A bound on the steps of one run: the call, then per node of the list the
\* loop step, a visit entry per link and for the root, a loop turn per link,
\* a completion and a build per node, the step out; then the return.
StepBound ==
    2 + Len(nodes) * (3 + 2 * TotalLinks + 2 * Len(nodes))

\* ------------------------------------------- evaluating a compiled graph
InitEval ==
    /\ InitCommon
    /\ \E angle \in InitialAngles :
          rotation_euler = [b \in Bones |-> [a \in 0..2 |-> IF a = 2 THEN angle ELSE 0]]
    /\ nodes \in EvalLists

\* gear.link(name, producer, name) for an output of the producer, each input
\* of the gear linked once.
MakeGraphEval ==
    \E n \in NodeIds, source_node \in NodeIds, names \in LinkNames :
        /\ isinstance_GearNode(n)
        /\ names[2] \in OutputNames(nodes[source_node].kind)
        /\ \A l \in LinksOf(n) : l[1] # names[1]
        /\ link(n, names[1], source_node, names[2])

\* The user poses a bone whose rotation no driver writes.
pose(bone, axis, angle) ==
    /\ pc = "done"
    /\ pending = {}
    /\ \A i \in 1..Len(drivers) :
          ~is_transform_data_path(bone, drivers[i].data_path)
    /\ rotation_euler' = [rotation_euler EXCEPT ![bone][axis] = angle]
    /\ UNCHANGED <<nodes, links, pc, err, ai, run, steps, first>>
    /\ UNCHANGED <<gatherVars, backendVars, buildVars>>
    /\ UNCHANGED <<frame, pending, pass_prev, pass_order, passes, snap, call>>

Pose == \E bone \in Bones, angle \in PoseAngles : pose(bone, 2, angle)
HostPassEval ==
    /\ passes < PassCap
    /\ \E f \in 0..MaxEvalFrame : frame_change(f)

NextEval ==
    \/ MakeGraphEval
    \/ Compile
    \/ build_drivers_return
    \/ skip_node
    \/ gather_expression_nodes
    \/ visit_enter
    \/ visit_links
    \/ visit_done
    \/ build_node
    \/ next_node
    \/ Pose
    \/ HostPassEval
    \/ HostEvaluate

SpecEval == InitEval /\ [][NextEval]_vars

\* ------------------------------------------------------------------ claims
\* C1: once gather_expression_nodes has returned the order for an anchor,
\* every link of a node in the order whose producer is an ExpressionNode has
\* its producer at a smaller index than its consumer.
C1_ProducersPrecedeConsumers ==
    pc = "build" =>
        \A i \in 1..Len(sorted) :
            \A l \in LinksOf(sorted[i]) :
                isinstance_ExpressionNode(l[2]) =>
                    \E j \in 1..(i - 1) : sorted[j] = l[2]

\* An order of three nodes with a link between the two producers.
C1_Witness ==
    /\ pc = "build"
    /\ Len(sorted) = 3
    /\ \E l \in LinksOf(sorted[2]) : l[2] = sorted[1]

C3_AcyclicTerminatesWithoutCycleError ==
    /\ (pc = "error" /\ err = CycleError) =>
          /\ HasCycle(ai)
          /\ \E j \in 1..(Len(stack) - 1) : stack[j].node = Top.node
    /\ pc = "gather" =>
          visited = { stack[j].node : j \in { k \in 1..Len(stack) : stack[k].li > 0 } }
    /\ steps <= StepBound
    /\ pc \in {"nodes", "gather", "build"} => CanStep

\* A diamond: the order holds a producer that two nodes of it link to.
C3_Witness ==
    /\ pc = "done"
    /\ \E p \in NodeIds :
          /\ isinstance_ExpressionNode(p)
          /\ \E c1, c2 \in Reachable(1) :
                /\ c1 # c2
                /\ p \in ExprProducers(c1)
                /\ p \in ExprProducers(c2)
                /\ c1 \in ExprProducers(c2)

\* C4: no two nodes built in one run receive the same scope string.
C4_ScopesUnique ==
    \A i, j \in 1..Len(scopes) : i # j => scopes[i].scope # scopes[j].scope

\* C7: every link whose value was copied from an ExpressionNode producer's
\* output had that producer built before, for the same anchor, and copied a
\* value, not None.
C7_ProducerBuiltBeforeCopy ==
    \A i \in 1..Len(resolved) :
        LET r == resolved[i]
        IN  (/\ isinstance_ExpressionNode(r.link.producer)
             /\ r.link.output_name \in OutputNames(nodes[r.link.producer].kind))
            => /\ r.producer_built
               /\ r.link.value # None
               /\ isinstance_NodeValue(r.link.value)

\* A GearNode took both its value and its condition from producers.
C7_Witness ==
    /\ Len(resolved) = 2
    /\ \A i \in 1..2 :
          /\ isinstance_ExpressionNode(resolved[i].link.producer)
          /\ resolved[i].link.output_name
                \in OutputNames(nodes[resolved[i].link.producer].kind)
    /\ resolved[1].link.producer # resolved[2].link.producer

NeverAnAttribute(l) ==
    /\ l[3] \notin ClassAttrs(nodes[l[2]].kind)
    /\ \A k \in LinksOf(l[2]) : k[1] # l[3]

LogInBackend ==
    /\ \A i \in 1..Len(log) :
          IF log[i].op = "scalar"
          THEN <<log[i].target, log[i].key>> \in DOMAIN props
          ELSE \E k \in 1..Len(drivers) : drivers[k].data_path = log[i].data_path
    /\ Len(drivers) = Cardinality({ i \in 1..Len(log) : log[i].op = "driver" })

\* C9: once an exception is raised the run has ended (nothing more is
\* emitted, the exception stays the one reported), and everything emitted
\* before it, the failing node's partial output included, is still there.
C9_FailureStopsWithoutRollback ==
    err # NoError =>
        /\ pc = "error"
        /\ ~CanStep
        /\ LogInBackend
        /\ Len(log) >= 4

\* A GearNode failed on its condition after its rotation driver was made.
C9_Witness ==
    /\ pc = "error"
    /\ err = Raise("AttributeError", "condition")
    /\ Len(log) > scopes[Len(scopes)].log_len
    /\ Len(scopes) > 1


EmittedDrivers ==
    { log[i].data_path : i \in { k \in 1..Len(log) : log[k].op = "driver" } }

FrameDeltaDriver == CHOOSE i \in 1..Len(drivers) :
                        drivers[i].data_path.name = frame_delta_key[2]
FramePrevDriver == CHOOSE i \in 1..Len(drivers) :
                        drivers[i].data_path.name = frame_prev_key[2]

C19_RepeatPassDeltaZero ==
    pc = "done" =>
        /\ (passes >= 1 /\ pending = {}) => props[frame_prev_key] = num(frame)
        /\ (passes >= 2 /\ snap.frame = frame) =>
              /\ pass_prev = frame
              /\ InSeq(pass_order, FrameDeltaDriver) =>
                    props[frame_delta_key] = num(0)

\* The second pass at frame 10, after one that moved there from frame 7.
C19_Witness ==
    /\ pc = "done"
    /\ passes = 2
    /\ frame = 10
    /\ snap.frame = 10
    /\ snap.props[frame_delta_key] = num(3)
    /\ pending = {}
    /\ props[frame_delta_key] = num(0)


\* The key the last add_idprop call was for.
call_key == <<call.args.target, idprop_uuid(call.args.target, call.args.prop)>>

\* C16: add_idprop leaves every property that existed at its value, the one
\* it is called for included; it stores the default, min and max it is given;
\* and called with the arguments of the call before it changes nothing.
C16_AddIdpropIdempotent ==
    (call # None /\ call.live) =>
        /\ \A k \in DOMAIN call.before.props :
              k \in DOMAIN props /\ props[k] = call.before.props[k]
        /\ call_key \in DOMAIN props
        /\ call_key \notin DOMAIN call.before.props => props[call_key] = call.args.value
        /\ rna_ui[call_key] = [default |-> call.args.value,
                               min |-> call.args.min, max |-> call.args.max]
        /\ call.args = call.prev =>
              /\ props = call.before.props
              /\ rna_ui = call.before.rna_ui

\* The call was repeated on a property that had been set to another value.
C16_Witness ==
    /\ call # None
    /\ call.live
    /\ call.args = call.prev
    /\ props[call_key] # call.args.value


\* The log entries made since the i-th build of the run began.
EmittedSince(i) == SubSeq(log, scopes[i].log_len + 1, Len(log))

\* C13: the build of a TransmissionNode with a tooth count <= 0 ends the run
\* in an exception, and no driver is emitted for that node.
C13_NonPositiveTeethFail ==
    \A i \in 1..Len(scopes) :
        LET node == nodes[scopes[i].node]
        IN  (/\ node.kind = "TransmissionNode"
             /\ (node.input_teeth <= 0 \/ node.output_teeth <= 0))
            => /\ i = Len(scopes)
               /\ pc = "error"
               /\ \A k \in 1..Len(EmittedSince(i)) : EmittedSince(i)[k].op # "driver"


\* The drivers driver i depends on through any number of declared variables.
RECURSIVE DependsClosure(_)
DependsClosure(S) ==
    LET T == S \cup UNION { depends_on(j) : j \in S }
    IN  IF T = S THEN S ELSE DependsClosure(T)
DependencyCycle == \E i \in 1..Len(drivers) : i \in DependsClosure(depends_on(i))

\* The bones whose live rotation the nodes compiled for anchor a read.
BonesRead(a) ==
    { nodes[n].input_gear.pose_bone :
        n \in { m \in Reachable(a) : nodes[m].kind = "TransmissionNode" } }
    \cup { nodes[n].pose_bone :
        n \in { m \in Reachable(a) : nodes[m].kind = "RangeConditionNode" } }
\* The bones read for the anchors that drive bone b.
BonesReadFor(b) ==
    UNION { BonesRead(a) :
        a \in { n \in NodeIds : isinstance_GearNode(n)
                                  /\ nodes[n].target_gear.pose_bone = b } }
RECURSIVE BoneClosure(_)
BoneClosure(S) ==
    LET T == S \cup UNION { BonesReadFor(b) : b \in S }
    IN  IF T = S THEN S ELSE BoneClosure(T)
\* Some gear is driven, through its own or other anchors, from its own bone.
GearDrivesItself == \E b \in Bones : b \in BoneClosure(BonesReadFor(b))

\* C17 as claimed: the drivers of every compiled graph have no cycle of
\* declared variables.
C17_DeclaredDependenciesAcyclic ==
    pc = "done" => ~DependencyCycle

\* C17 as amended: when no gear is driven from its own bone, the drivers of
\* a compiled graph have no cycle of declared variables, and every driver
\* that reads its own property or its bone's rotation through self has
\* use_self set.
C17_AcyclicUnlessGearDrivesItself ==
    pc = "done" =>
        /\ ~GearDrivesItself => ~DependencyCycle
        /\ \A i \in 1..Len(drivers) :
              (\E k \in 1..Len(drivers[i].expression.text) :
                  /\ "type" \in DOMAIN drivers[i].expression.text[k][2]
                  /\ drivers[i].expression.text[k][2].type = "self")
              => drivers[i].use_self

\* A gear on B driven through a transmission that reads bone A.
C17_Witness ==
    /\ pc = "done"
    /\ ~GearDrivesItself
    /\ \E i, j, k \in 1..Len(drivers) :
          /\ ~drivers[i].data_path.custom
          /\ j \in depends_on(i)
          /\ k \in depends_on(j)
          /\ drivers[j].use_self
          /\ drivers[k].use_self

\* ------------------------------------------------- evaluated expressions
\* The drivers whose expression has a placeholder of that name.
DriversWith(name) ==
    { i \in 1..Len(drivers) :
        \E k \in 1..Len(drivers[i].expression.text) :
            drivers[i].expression.text[k][1] = name }

\* The node of that class in the list.
NodeOfKind(kind) == CHOOSE n \in NodeIds : nodes[n].kind = kind

\* The property a driver writes.
driven_key(i) == <<drivers[i].data_path.owner, drivers[i].data_path.name>>

\* The rotation of a bone that the drivers of the current pass read: what
\* its driver wrote in the pass, or the pose the pass began with.
seen_rotation(bone, axis) ==
    IF \E i \in 1..Len(drivers) : is_transform_data_path(bone, drivers[i].data_path)
    THEN rotation_euler[bone][axis]
    ELSE snap.rotation_euler[bone][axis]

\* The angle's fraction of a revolution lies in the range from start to
\* stop, which wraps through 0 when start > stop and is empty when they are
\* equal.
in_range(x, start, stop) ==
    LET f == x % AngleUnits
        b == start % AngleUnits
        e == stop % AngleUnits
    IN  IF b < e THEN f >= b /\ f < e
        ELSE IF b > e THEN f >= b \/ f < e
        ELSE FALSE

\* C14: once the condition driver of a RangeConditionNode is evaluated, the
\* condition is 1.0 when the fraction of a revolution of the watched bone's
\* angle lies in the range and 0.0 otherwise; from 3*pi/2 to pi/2 it is 1.0
\* at 0 and at 7*pi/4 and 0.0 at pi, and with start = stop it is 0.0.
C14_RangeCondition ==
    pc = "done" =>
        \A i \in DriversWith("start") :
            InSeq(pass_order, i) =>
                LET n == nodes[NodeOfKind("RangeConditionNode")]
                    x == seen_rotation(n.pose_bone, n.axis)
                    c == props[driven_key(i)]
                IN  /\ c = num(IF in_range(x, n.start_angle, n.stop_angle)
                               THEN 1 ELSE 0)
                    /\ (n.start_angle = 60 /\ n.stop_angle = 20) =>
                          /\ x \in {0, 70} => c = num(1)
                          /\ x = 40 => c = num(0)
                    /\ n.start_angle = n.stop_angle => c = num(0)

\* The range from 3*pi/2 to pi/2 evaluated with the watched bone at 7*pi/4.
C14_Witness ==
    /\ pc = "done"
    /\ \E i \in DriversWith("start") :
          /\ InSeq(pass_order, i)
          /\ nodes[NodeOfKind("RangeConditionNode")].start_angle = 60
          /\ nodes[NodeOfKind("RangeConditionNode")].stop_angle = 20
          /\ snap.rotation_euler[nodes[NodeOfKind("RangeConditionNode")].pose_bone][2] = 70
          /\ props[driven_key(i)] = num(1)

\* The drivers that declare a variable of that name.
DriversReading(name) ==
    { i \in 1..Len(drivers) :
        \E k \in 1..Len(drivers[i].variables) : drivers[i].variables[k].name = name }

\* The stored value driver i's variable of that name reads.
read(i, name) == variable_read(variable_of(drivers[i], name), props, rotation_euler)

\* The rotation driver and the tooth_offset driver of the TransmissionNode.
TransmissionRotation == DriversReading("tooth_offset")
TransmissionOffset == DriversWith("ratio") \ DriversReading("tooth_offset")

\* C11: once the rotation driver of a TransmissionNode is evaluated with its
\* condition true, rotation = input * input_teeth / output_teeth
\* + 2*pi * (tooth_offset + tooth_phase) / output_teeth; with 40 and 20
\* teeth, tooth_offset + tooth_phase = 0 and the input at pi it is 2*pi.
\* The tooth_offset driver evaluated with the condition true leaves
\* tooth_offset at the value it had when the pass began.
C11_TransmissionEngaged ==
    pc = "done" =>
        /\ \A i \in TransmissionRotation :
              (InSeq(pass_order, i) /\ read(i, "cond") # 0) =>
                  LET n == nodes[NodeOfKind("TransmissionNode")]
                      input == seen_rotation(n.input_gear.pose_bone, n.input_gear.axis)
                      teeth == read(i, "tooth_offset") + read(i, "tooth_phase")
                      rotation == props[driven_key(i)].v
                  IN  /\ rotation * n.output_teeth
                            = input * n.input_teeth + AngleUnits * teeth
                      /\ (/\ n.input_teeth = 40
                          /\ n.output_teeth = 20
                          /\ teeth = 0
                          /\ input = AngleUnits \div 2) => rotation = AngleUnits
        /\ \A j \in TransmissionOffset :
              (InSeq(pass_order, j) /\ read(j, "cond") # 0) =>
                  props[driven_key(j)] = snap.props[driven_key(j)]

\* The transmission of 40 to 20 teeth evaluated engaged with its input at
\* pi: the rotation is 2*pi and the tooth_offset is the one the pass began
\* with.
C11_Witness ==
    /\ pc = "done"
    /\ pending = {}
    /\ \E i \in TransmissionRotation, j \in TransmissionOffset :
          /\ InSeq(pass_order, i)
          /\ InSeq(pass_order, j)
          /\ read(i, "cond") # 0
          /\ snap.rotation_euler[nodes[NodeOfKind("TransmissionNode")].input_gear.pose_bone][2]
                = AngleUnits \div 2
          /\ props[driven_key(i)] = num(AngleUnits)
          /\ props[driven_key(j)] = snap.props[driven_key(j)]

\* C12: once the drivers of a TransmissionNode are evaluated with its
\* condition false in a pass after the first, the stored rotation is the
\* one the previous pass left, and tooth_offset is
\* round(output_teeth * (rotation_prev - input * ratio) / (2*pi)) for that
\* rotation; in the first pass both take the pose of the driven bone in its
\* place. The rotation the engaged formula gives for this tooth_offset and
\* the present input is within half a tooth of the held rotation, so the
\* next engaged evaluation meshes on the nearest tooth.
C12_TransmissionDisengaged ==
    pc = "done" =>
        \A i \in TransmissionRotation, j \in TransmissionOffset :
            LET n == nodes[NodeOfKind("TransmissionNode")]
                input == seen_rotation(n.input_gear.pose_bone, n.input_gear.axis)
                bone == drivers[i].data_path.owner
                rotation_prev ==
                    IF passes >= 2 THEN snap.props[driven_key(i)].v
                    ELSE snap.rotation_euler[bone][2]
                held == props[driven_key(i)].v
                tooth_offset == props[driven_key(j)].v
            IN  /\ (InSeq(pass_order, i) /\ read(i, "cond") = 0) =>
                      held = rotation_prev
                /\ (InSeq(pass_order, j) /\ read(j, "cond") = 0) =>
                      tooth_offset =
                          round(n.output_teeth * (rotation_prev * n.output_teeth
                                                  - input * n.input_teeth),
                                AngleUnits * n.output_teeth)
                /\ (/\ InSeq(pass_order, i)
                    /\ InSeq(pass_order, j)
                    /\ read(i, "cond") = 0
                    /\ read(i, "tooth_phase") = 0) =>
                      LET gap == input * n.input_teeth + AngleUnits * tooth_offset
                                 - held * n.output_teeth
                      IN  2 * gap <= AngleUnits /\ 2 * gap >= -AngleUnits

\* A second pass evaluated disengaged: the rotation is the one the pass
\* began with, off the rest pose, and the tooth_offset is resynchronized to
\* an input that moved.
C12_Witness ==
    /\ pc = "done"
    /\ passes >= 2
    /\ pending = {}
    /\ \E i \in TransmissionRotation, j \in TransmissionOffset :
          /\ InSeq(pass_order, i)
          /\ InSeq(pass_order, j)
          /\ read(i, "cond") = 0
          /\ props[driven_key(i)] = snap.props[driven_key(i)]
          /\ props[driven_key(i)].v # 0
          /\ rotation_euler[drivers[i].data_path.owner][2] = props[driven_key(i)].v
          /\ props[driven_key(j)] # snap.props[driven_key(j)]

\* The rotation driver of the ConstRotationNode.
ConstRotation == DriversReading("speed")

\* The driver reads the property it writes through self and declares no
\* variable on it.
ReadsOwnThroughSelf(i) ==
    /\ drivers[i].use_self
    /\ text_of(drivers[i], "curval")
          = [type |-> "self", key |-> drivers[i].data_path.name]
    /\ \A k \in 1..Len(drivers[i].variables) :
          ~writes_variable(drivers[i], drivers[i].variables[k])

\* C18 as claimed: at every evaluation of the rotation driver of a
\* ConstRotationNode the stored rotation becomes the value the pass began
\* with plus speed * frame_delta.
C18_IntegratesAtEveryEvaluation ==
    pc = "done" =>
        \A i \in ConstRotation :
            InSeq(pass_order, i) =>
                props[driven_key(i)].v
                    = snap.props[driven_key(i)].v
                      + read(i, "speed") * props[frame_delta_key].v

\* C18 as amended: evaluated with its companion condition true, the stored
\* rotation becomes the value the pass began with plus speed * frame_delta;
\* evaluated with the condition false, it becomes the rotation the driven
\* bone had when the pass began. The driver reads its own property through
\* self and declares no variable on it.
C18_IntegratesWhileCondition ==
    pc = "done" =>
        \A i \in ConstRotation :
            /\ ReadsOwnThroughSelf(i)
            /\ InSeq(pass_order, i) =>
                  props[driven_key(i)].v
                      = IF read(i, "cond") # 0
                        THEN snap.props[driven_key(i)].v
                             + read(i, "speed") * props[frame_delta_key].v
                        ELSE snap.rotation_euler[drivers[i].data_path.owner][2]

\* A pass one frame on with the condition true, which adds the speed to a
\* rotation that an earlier pass had already advanced.
C18_Witness ==
    /\ pc = "done"
    /\ pending = {}
    /\ \E i \in ConstRotation :
          /\ InSeq(pass_order, i)
          /\ read(i, "cond") # 0
          /\ props[frame_delta_key] = num(1)
          /\ snap.props[driven_key(i)].v # 0
          /\ props[driven_key(i)].v = snap.props[driven_key(i)].v + read(i, "speed")

\* The custom property of a value handle, and the path a driver or a
\* variable names it by.
value_key(v) == <<v.target, idprop_uuid(v.target, v.prop)>>
value_path(v) == idprop_data_path(v.target, idprop_uuid(v.target, v.prop))

\* The drivers on a data path.
DriversOn(data_path) ==
    { i \in 1..Len(drivers) : drivers[i].data_path = data_path }

\* C20: for a compiled GearNode with a value resolved into input_value, one
\* driver on the target bone's rotation reads that value's property, and
\* its evaluation leaves the rotation at the value's output. The companion
\* condition of that value has a driver exactly when a value was resolved
\* into condition_value; the driver reads the condition's property and its
\* evaluation leaves the companion at the condition's value. With no
\* condition value the companion stays at 1.0.
C20_GearBindings ==
    pc = "done" =>
        LET g == NodeOfKind("GearNode")
            gear == nodes[g].target_gear
            input == attrs[g]["input_value"]
            condition == attrs[g]["condition_value"]
            R == DriversOn(rna_data_path(gear.pose_bone, "rotation_euler", gear.axis))
            C == DriversOn(value_path(input.condition))
        IN  input # None =>
              /\ Cardinality(R) = 1
              /\ \A i \in R :
                    /\ drivers[i].expression.template = "gear_rotation"
                    /\ drivers[i].variables
                          = << [name |-> "gear_rotation", type |-> "SINGLE_PROP",
                                data_path |-> value_path(input)] >>
                    /\ InSeq(pass_order, i) =>
                          rotation_euler[gear.pose_bone][gear.axis]
                              = props[value_key(input)].v
              /\ (C # {}) <=> (condition # None)
              /\ \A i \in C :
                    /\ drivers[i].expression.template = "cond"
                    /\ drivers[i].variables
                          = << [name |-> "cond", type |-> "SINGLE_PROP",
                                data_path |-> value_path(condition)] >>
                    /\ InSeq(pass_order, i) =>
                          props[value_key(input.condition)] = props[value_key(condition)]
              /\ condition = None => props[value_key(input.condition)] = num(1)

\* A gear with an input and a condition, evaluated with the condition
\* false: the companion is 0.0 and the bone is turned to the output.
C20_Witness ==
    /\ pc = "done"
    /\ pending = {}
    /\ passes >= 1
    /\ attrs[NodeOfKind("GearNode")]["input_value"] # None
    /\ attrs[NodeOfKind("GearNode")]["condition_value"] # None
    /\ props[value_key(attrs[NodeOfKind("GearNode")]["input_value"].condition)] = num(0)
    /\ props[value_key(attrs[NodeOfKind("GearNode")]["input_value"])].v # 0
    /\ rotation_euler[nodes[NodeOfKind("GearNode")].target_gear.pose_bone][2]
          = props[value_key(attrs[NodeOfKind("GearNode")]["input_value"])].v

\* C15: every driver in the backend has an expression of at most
\* max_expr_len characters, and a call that makes a driver ends in
\* ExpressionTooLongError, with no driver added, exactly when its expression
\* is longer.
C15_ExpressionWithinLimit ==
    /\ \A i \in 1..Len(drivers) :
          Len(drivers[i].expression.template) <= max_expr_len
    /\ call # None =>
          IF Len(call.expression) > max_expr_len
          THEN err.type = "ExpressionTooLongError" /\ drivers = call.before
          ELSE err = NoError /\ Len(drivers) = Len(call.before) + 1

\* The entries of the run's log that create the scalar of that key on the
\* armature, and those that create a driver on it.
ScalarsLogged(key) ==
    { k \in 1..Len(log) :
        log[k].op = "scalar" /\ log[k].target = OBJ /\ log[k].key = key[2] }
DriversLogged(key) ==
    { k \in 1..Len(log) :
        log[k].op = "driver" /\ log[k].data_path = idprop_data_path(OBJ, key[2]) }

\* C21: in a run of build_drivers the frame_delta and the frame_prev scalar
\* and the driver of each are created once, by setup_armature, whose four
\* entries open the log; the builds of the nodes add no scalar and no driver
\* for them.
C21_FrameTimingOnce ==
    run >= 1 =>
        \A key \in {frame_delta_key, frame_prev_key} :
            /\ Cardinality(ScalarsLogged(key)) = 1
            /\ Cardinality(DriversLogged(key)) = 1
            /\ \A k \in ScalarsLogged(key) \cup DriversLogged(key) : k <= 4

\* Two anchors on the armature each built a ConstRotationNode, whose driver
\* reads frame_delta.
C21_Witness ==
    /\ pc = "done"
    /\ Cardinality(ConstRotation) >= 2
    /\ \A i \in ConstRotation :
          variable_of(drivers[i], "delta").data_path
              = idprop_data_path(OBJ, frame_delta_key[2])

\* C22: when build_drivers returns without an exception, the producer of
\* every link of every node is an ExpressionNode, and no value resolved for
\* the node built last was copied from a GearNode.
C22_ProducersAreExpressionNodes ==
    pc = "done" =>
        /\ \A n \in NodeIds : \A l \in LinksOf(n) : isinstance_ExpressionNode(l[2])
        /\ \A i \in 1..Len(resolved) :
              isinstance_ExpressionNode(resolved[i].link.producer)

\* C23: the order gather_expression_nodes returns for an anchor holds the
\* nodes the anchor reaches through ExpressionNode producers, each once and
\* no other node, with the anchor last; and each of them is built once for
\* the anchor.
C23_OrderIsReachableSet ==
    pc = "build" =>
        /\ { sorted[i] : i \in 1..Len(sorted) } = Reachable(ai)
        /\ \A i, j \in 1..Len(sorted) : i # j => sorted[i] # sorted[j]
        /\ sorted[Len(sorted)] = ai
        /\ \A i, j \in 1..Len(scopes) :
              (i # j /\ scopes[i].anchor = ai /\ scopes[j].anchor = ai)
                  => scopes[i].node # scopes[j].node

\* The anchor and another node share a producer, and all three are built
\* for the anchor.
C23_Witness ==
    /\ pc = "build"
    /\ bi > Len(sorted)
    /\ Len(sorted) = 3
    /\ \E n \in NodeIds, c \in NodeIds \ {ai} :
          /\ n \in ExprProducers(ai)
          /\ n \in ExprProducers(c)
          /\ c \in ExprProducers(ai)
    /\ Cardinality({ i \in 1..Len(scopes) : scopes[i].anchor = ai }) = 3

\* The drivers at hand that are locked or that the user made.
NotCompilerOwned ==
    { drivers[i] : i \in { k \in 1..Len(drivers) :
                              drivers[k].lock \/ drivers[k] \in UserDrivers } }

\* The step leaves every custom property outside the namespace with its
\* value and its metadata, and every driver that is locked or that the
\* compiler did not create in the collection as often as it was.
KeptByCleanup ==
    /\ \A k \in DOMAIN props :
          ~startswith_prefix(k[2]) => (k \in DOMAIN props' /\ props'[k] = props[k])
    /\ \A k \in DOMAIN rna_ui :
          ~startswith_prefix(k[2]) => (k \in DOMAIN rna_ui' /\ rna_ui'[k] = rna_ui[k])
    /\ \A d \in NotCompilerOwned :
          Cardinality({ i \in 1..Len(drivers') : drivers'[i] = d })
              = Cardinality({ i \in 1..Len(drivers) : drivers[i] = d })

\* C24: every step that runs cleanup_armature, called by itself or at the
\* start of build_drivers, leaves unchanged every custom property whose key
\* does not start with the namespace prefix, every locked driver and every
\* driver the compiler did not create, on the armature and on its bones.
C24_CleanupKeepsForeign ==
    [][(pc' = "cleared" \/ run' # run) => KeptByCleanup]_vars

====
